---- MODULE Spec2Model ----
(***************************************************************************)
(* Model of the mock booking API of care-booking-factory                   *)
(* (src/mocks/handlers.ts): the availability computation                   *)
(* generateAvailableSlots and the handlers of /api/bookings,               *)
(* /api/availability and /api/reviews, over the in-memory arrays           *)
(* mockBookings, mockReviews and mockProviders.                            *)
(*                                                                         *)
(* Representation.  An "HH:mm" string is the pair <<hours, minutes>>; the  *)
(* JavaScript comparison of two zero-padded "HH:mm" strings is the         *)
(* lexicographic comparison of the pairs (StrLT, StrLE).  A "yyyy-MM-dd"   *)
(* string is the triple <<year, month, day>>.  A missing (undefined or     *)
(* empty) request field is the empty tuple, the empty string or 0.  A      *)
(* provider rating, the quotient totalRating / length, is the pair         *)
(* <<totalRating, length>>.                                                *)
(***************************************************************************)
EXTENDS Integers, Sequences, FiniteSets, TLC

VARIABLES
    today,          \* the day on which the module was loaded (new Date())
    mockBookings,   \* the ledger: a sequence of Booking records
    clients,        \* per client: its POST /api/bookings request and response
    walk,           \* a run of a slot generator: its arguments and slots
    mockReviews,    \* the reviews: a sequence of Review records
    providerStats,  \* per provider: rating and reviewCount of mockProviders
    reviewResponse, \* the last response of a handler of /api/reviews
    availabilityResponse  \* the last response of GET /api/availability

vars == <<today, mockBookings, clients, walk, mockReviews, providerStats,
          reviewResponse, availabilityResponse>>

\* the state of the review handlers
reviewVars == <<mockReviews, providerStats, reviewResponse>>

\* the state of the booking handlers and of the slot walk
bookingVars == <<today, mockBookings, clients, walk>>

----------------------------------------------------------------------------
(* Bounds of the model.                                                    *)

\* the ledger never grows beyond the 5 initial bookings plus this many
MaxNewBookings == 2
\* the slot walk is run on at most this many working periods of a day
MaxPeriods == 2
\* the working periods of the slot walk lie within this many hours from 08:00
WalkHours == 3

----------------------------------------------------------------------------
(* Program constants.                                                      *)

\* the step of the slot walk ("Increment by 30 minutes")
SlotMinutes == 30

Statuses == {"pending", "confirmed", "cancelled", "completed"}

NoTime == <<>>
NoDate == <<>>
NoId == ""

----------------------------------------------------------------------------
(* Strings "HH:mm" and "yyyy-MM-dd".                                       *)

\* a < b for two zero-padded "HH:mm" strings
StrLT(a, b) == a[1] < b[1] \/ (a[1] = b[1] /\ a[2] < b[2])

\* a <= b for two zero-padded "HH:mm" strings
StrLE(a, b) == a[1] < b[1] \/ (a[1] = b[1] /\ a[2] <= b[2])

\* minutes since midnight of "HH:mm"
Minutes(t) == t[1] * 60 + t[2]

\* days since 1970-01-01 of <<y, m, d>> (proleptic Gregorian calendar)
DayNumber(date) ==
    LET y   == IF date[2] <= 2 THEN date[1] - 1 ELSE date[1]
        era == y \div 400
        yoe == y - era * 400
        mp  == (date[2] + 9) % 12
        doy == (153 * mp + 2) \div 5 + date[3] - 1
        doe == yoe * 365 + yoe \div 4 - yoe \div 100 + doy
    IN  era * 146097 + doe - 719468

\* the <<y, m, d>> of a day number
CivilDate(n) ==
    LET z   == n + 719468
        era == z \div 146097
        doe == z - era * 146097
        yoe == (doe - doe \div 1460 + doe \div 36524 - doe \div 146096) \div 365
        doy == doe - (365 * yoe + yoe \div 4 - yoe \div 100)
        mp  == (5 * doy + 2) \div 153
        d   == doy - (153 * mp + 2) \div 5 + 1
        m   == IF mp < 10 THEN mp + 3 ELSE mp - 9
        y   == yoe + era * 400
    IN  <<IF m <= 2 THEN y + 1 ELSE y, m, d>>

\* format(addDays(date, n), 'yyyy-MM-dd')
addDays(date, n) == CivilDate(DayNumber(date) + n)

\* format(subDays(date, n), 'yyyy-MM-dd')
subDays(date, n) == CivilDate(DayNumber(date) - n)

\* parseISO(date).getDay(): 0 is Sunday
getDay(date) == (DayNumber(date) + 4) % 7

----------------------------------------------------------------------------
(* Mock data: providers and services (never mutated by the booking         *)
(* handlers).                                                              *)

Closed == [isOpen |-> FALSE, slots |-> <<>>]
Open(s, e) == [isOpen |-> TRUE, slots |-> <<[start |-> s, end |-> e]>>]

mockProviders ==
    [ id \in {"1", "2", "3"} |->
        CASE id = "1" ->
               [workingHours |-> [d \in 0..6 |->
                   CASE d = 0 -> Closed
                     [] d = 6 -> Open(<<10, 0>>, <<15, 0>>)
                     [] OTHER -> Open(<<9, 0>>, <<17, 0>>)]]
          [] id = "2" ->
               [workingHours |-> [d \in 0..6 |->
                   CASE d = 6 -> Closed
                     [] d = 5 -> Open(<<14, 0>>, <<22, 0>>)
                     [] OTHER -> Open(<<10, 0>>, <<20, 0>>)]]
          [] id = "3" ->
               [workingHours |-> [d \in 0..6 |->
                   CASE d = 0 -> Closed
                     [] d = 6 -> Open(<<9, 0>>, <<17, 0>>)
                     [] OTHER -> Open(<<10, 0>>, <<19, 0>>)]] ]

Svc(p, pr, cur, dur) ==
    [providerId |-> p, price |-> pr, currency |-> cur, duration |-> dur,
     available |-> TRUE]

mockServices ==
    [ id \in {"1", "2", "3", "4", "5", "6", "7", "8", "9", "10", "11", "12"} |->
        CASE id = "1"  -> Svc("1", 75, "USD", 60)
          [] id = "2"  -> Svc("1", 90, "USD", 75)
          [] id = "3"  -> Svc("1", 65, "USD", 90)
          [] id = "4"  -> Svc("1", 120, "USD", 60)
          [] id = "5"  -> Svc("2", 150, "AED", 90)
          [] id = "6"  -> Svc("2", 280, "AED", 60)
          [] id = "7"  -> Svc("2", 350, "AED", 75)
          [] id = "8"  -> Svc("2", 320, "AED", 120)
          [] id = "9"  -> Svc("3", 35, "USD", 30)
          [] id = "10" -> Svc("3", 25, "USD", 20)
          [] id = "11" -> Svc("3", 45, "USD", 45)
          [] id = "12" -> Svc("3", 55, "USD", 60) ]

Bk(i, c, p, s, d, st, en, status, pr, cur) ==
    [id |-> i, customerId |-> c, providerId |-> p, serviceId |-> s,
     date |-> d, startTime |-> st, endTime |-> en, status |-> status,
     totalPrice |-> pr, currency |-> cur]

\* the initial contents of mockBookings, for a module loaded on day t
InitialBookings(t) ==
    << Bk("1", "1", "1", "1", subDays(t, 1), <<10, 0>>, <<11, 0>>,
          "completed", 75, "USD"),
       Bk("2", "1", "2", "6", addDays(t, 1), <<14, 0>>, <<15, 0>>,
          "confirmed", 280, "AED"),
       Bk("3", "3", "2", "5", addDays(t, 7), <<16, 0>>, <<17, 30>>,
          "confirmed", 150, "AED"),
       Bk("4", "3", "3", "12", subDays(t, 1), <<11, 0>>, <<12, 0>>,
          "completed", 55, "USD"),
       Bk("5", "1", "1", "2", addDays(t, 3), <<15, 0>>, <<16, 15>>,
          "pending", 90, "USD") >>

Rv(i, b, c, p, s, r) ==
    [id |-> i, bookingId |-> b, customerId |-> c, providerId |-> p,
     serviceId |-> s, rating |-> r]

\* the initial contents of mockReviews
InitialReviews ==
    << Rv("1", "1", "1", "1", "1", 5), Rv("2", "4", "3", "3", "12", 4) >>

\* the initial rating and reviewCount of the providers: 4.8, 4.9 and 4.7
InitialStats ==
    [ id \in {"1", "2", "3"} |->
        CASE id = "1" -> [rating |-> <<48, 10>>, reviewCount |-> 124]
          [] id = "2" -> [rating |-> <<49, 10>>, reviewCount |-> 89]
          [] id = "3" -> [rating |-> <<47, 10>>, reviewCount |-> 56] ]

----------------------------------------------------------------------------
(* generateAvailableSlots.                                                 *)

\* the slot walk with a slot that ends at the period end left out
RECURSIVE WalkPeriod_StrictEnd(_, _, _, _, _)
WalkPeriod_StrictEnd(currentHour, currentMinute, endHour, endMinute, slots) ==
    IF ~(currentHour < endHour
         \/ (currentHour = endHour /\ currentMinute < endMinute))
    THEN slots
    ELSE LET startTime  == <<currentHour, currentMinute>>
             stepped    == currentMinute + SlotMinutes
             nextHour   == IF stepped >= 60 THEN currentHour + 1
                                            ELSE currentHour
             nextMinute == IF stepped >= 60 THEN stepped - 60 ELSE stepped
             fits       == nextHour < endHour
                           \/ (nextHour = endHour /\ nextMinute < endMinute)
             endTime    == <<nextHour, nextMinute>>
         IN  WalkPeriod_StrictEnd(nextHour, nextMinute, endHour, endMinute,
                        IF fits
                        THEN Append(slots, [start |-> startTime,
                                            end |-> endTime])
                        ELSE slots)

\* the while loop over one working period: from <<currentHour,
\* currentMinute>>, push a slot per step that ends at or before the period end
RECURSIVE WalkPeriod(_, _, _, _, _)
WalkPeriod(currentHour, currentMinute, endHour, endMinute, slots) ==
    IF ~(currentHour < endHour
         \/ (currentHour = endHour /\ currentMinute < endMinute))
    THEN slots
    ELSE LET startTime  == <<currentHour, currentMinute>>
             stepped    == currentMinute + SlotMinutes
             nextHour   == IF stepped >= 60 THEN currentHour + 1
                                            ELSE currentHour
             nextMinute == IF stepped >= 60 THEN stepped - 60 ELSE stepped
             fits       == nextHour < endHour
                           \/ (nextHour = endHour /\ nextMinute <= endMinute)
             endTime    == <<nextHour, nextMinute>>
         IN  WalkPeriod(nextHour, nextMinute, endHour, endMinute,
                        IF fits
                        THEN Append(slots, [start |-> startTime,
                                            end |-> endTime])
                        ELSE slots)

\* workingHours.slots.forEach(period => ...): the candidate slots of a day
RECURSIVE GenerateSlots(_, _)
GenerateSlots(periods, slots) ==
    IF periods = <<>> THEN slots
    ELSE LET period == Head(periods)
         IN  GenerateSlots(Tail(periods),
                 WalkPeriod(period.start[1], period.start[2],
                            period.end[1], period.end[2], slots))

\* the occupying bookings with the pending ones left out
BookedSlots_ConfirmedOnly(bookings, providerId, date) ==
    LET Occupies(booking) ==
            /\ booking.providerId = providerId
            /\ booking.date = date
            /\ booking.status = "confirmed"
    IN  SelectSeq(bookings, Occupies)

\* the occupying bookings of a date taken to occupy time of every provider
BookedSlots_AnyProvider(bookings, providerId, date) ==
    LET Occupies(booking) ==
            /\ booking.date = date
            /\ (booking.status = "confirmed" \/ booking.status = "pending")
    IN  SelectSeq(bookings, Occupies)

\* every booking of a provider on a date taken to occupy time, whatever
\* its status
BookedSlots_AnyStatus(bookings, providerId, date) ==
    LET Occupies(booking) ==
            /\ booking.providerId = providerId
            /\ booking.date = date
    IN  SelectSeq(bookings, Occupies)

\* the bookings that occupy time of a provider on a date
BookedSlots(bookings, providerId, date) ==
    LET Occupies(booking) ==
            /\ booking.providerId = providerId
            /\ booking.date = date
            /\ (booking.status = "confirmed" \/ booking.status = "pending")
    IN  SelectSeq(bookings, Occupies)

\* a booking taken to block only the slot that starts when it starts
SlotTaken_StartOnly(booking, slot) == booking.startTime = slot.start

\* the test without its third clause
SlotTaken_TwoClauses(booking, slot) ==
    \/ (StrLE(booking.startTime, slot.start)
        /\ StrLT(slot.start, booking.endTime))
    \/ (StrLT(booking.startTime, slot.end)
        /\ StrLE(slot.end, booking.endTime))

\* the three-clause test of a booking against a candidate slot
SlotTaken(booking, slot) ==
    \/ (StrLE(booking.startTime, slot.start)
        /\ StrLT(slot.start, booking.endTime))
    \/ (StrLT(booking.startTime, slot.end)
        /\ StrLE(slot.end, booking.endTime))
    \/ (StrLE(slot.start, booking.startTime)
        /\ StrLE(booking.endTime, slot.end))

\* slots.filter(slot => !bookedSlots.some(...))
FilterBooked(slots, bookedSlots) ==
    LET Free(slot) ==
            ~ \E i \in 1..Len(bookedSlots) : SlotTaken(bookedSlots[i], slot)
    IN  SelectSeq(slots, Free)

\* the slots computed with the weekday of the day before the date
generateAvailableSlots_DayBefore(bookings, providerId, date) ==
    IF providerId \notin DOMAIN mockProviders THEN <<>>
    ELSE LET provider  == mockProviders[providerId]
             dayOfWeek == (getDay(date) + 6) % 7
         IN  IF ~provider.workingHours[dayOfWeek].isOpen THEN <<>>
             ELSE FilterBooked(
                      GenerateSlots(provider.workingHours[dayOfWeek].slots,
                                    <<>>),
                      BookedSlots(bookings, providerId, date))

\* generateAvailableSlots(providerId, date) over the ledger `bookings`
generateAvailableSlots(bookings, providerId, date) ==
    IF providerId \notin DOMAIN mockProviders THEN <<>>
    ELSE LET provider  == mockProviders[providerId]
             dayOfWeek == getDay(date)
         IN  IF ~provider.workingHours[dayOfWeek].isOpen THEN <<>>
             ELSE FilterBooked(
                      GenerateSlots(provider.workingHours[dayOfWeek].slots,
                                    <<>>),
                      BookedSlots(bookings, providerId, date))

----------------------------------------------------------------------------
(* Inputs of the handlers.                                                 *)

\* the day on which the module was loaded: a Friday
TodayChoices == {<<2025, 6, 6>>}

Monday == <<2025, 6, 9>>
Sunday == <<2025, 6, 8>>

\* the clients that may each have a booking request in flight
Clients == {1, 2}

Req(c, p, s, d, st) ==
    [customerId |-> c, providerId |-> p, serviceId |-> s, date |-> d,
     startTime |-> st]

\* the bodies of POST /api/bookings that clients send
BookingRequests ==
    { Req("1", "1", "1", Monday, st) :
          st \in {<<10, 0>>, <<10, 30>>, <<11, 0>>} }
    \cup { Req("3", "2", "5", Monday, <<10, 0>>),    \* another provider
           Req(NoId, "1", "1", Monday, <<10, 0>>) }  \* customerId missing

\* the ids that PUT and DELETE /api/bookings/:id are sent for: the first
\* booking created since the module was loaded, and an id no booking has
BookingIds == {"6", "99"}

\* the bodies of PUT /api/bookings/:id that clients send
BookingUpdates == {[status |-> st] : st \in Statuses}

----------------------------------------------------------------------------
(* Handlers.                                                               *)

Idle == [pc |-> "idle"]

\* no run of the slot walk on its own is under way
NoWalk == [periods |-> <<>>, slots |-> <<>>, done |-> FALSE]

\* array.findIndex(b => b.id === id): 0 stands for -1
FindIndex(bookings, id) ==
    IF \E i \in 1..Len(bookings) : bookings[i].id = id
    THEN CHOOSE i \in 1..Len(bookings) :
             /\ bookings[i].id = id
             /\ \A j \in 1..(i - 1) : bookings[j].id # id
    ELSE 0

\* the end time taken from the 30-minute slot instead of the service
EndTimeOf_SlotEnd(startTime, duration) ==
    LET total == Minutes(startTime) + SlotMinutes
    IN  <<(total \div 60) % 24, total % 60>>

\* the "HH:mm" of a Date set to startTime and advanced by duration minutes
EndTimeOf(startTime, duration) ==
    LET total == Minutes(startTime) + duration
    IN  <<(total \div 60) % 24, total % 60>>

\* { ...booking, ...data }: the fields of data override those of booking
Spread(booking, data) ==
    [k \in DOMAIN booking \cup DOMAIN data |->
        IF k \in DOMAIN data THEN data[k] ELSE booking[k]]

\* the response with the id taken from the number of bookings before the
\* push, which is the id of the last booking
PostBookingsResponse_IdFromLast(bookings, data) ==
    IF \/ data.customerId = NoId \/ data.providerId = NoId
       \/ data.serviceId = NoId \/ data.date = NoDate
       \/ data.startTime = NoTime
    THEN [status |-> 400,
          message |-> "Missing required booking information"]
    ELSE IF data.serviceId \notin DOMAIN mockServices
    THEN [status |-> 404, message |-> "Service not found"]
    ELSE LET service == mockServices[data.serviceId]
             endTime == EndTimeOf(data.startTime, service.duration)
             availableSlots ==
                 generateAvailableSlots(bookings, data.providerId, data.date)
             isSlotAvailable ==
                 \E i \in 1..Len(availableSlots) :
                     availableSlots[i].start = data.startTime
         IN  IF ~isSlotAvailable
             THEN [status |-> 400,
                   message |-> "Selected time slot is not available"]
             ELSE [status |-> 201,
                   booking |->
                     [id |-> ToString(Len(bookings)),
                      customerId |-> data.customerId,
                      providerId |-> data.providerId,
                      serviceId |-> data.serviceId,
                      date |-> data.date,
                      startTime |-> data.startTime,
                      endTime |-> endTime,
                      status |-> "pending",
                      totalPrice |-> service.price,
                      currency |-> service.currency]]

\* the response of POST /api/bookings to the body `data` over `bookings`
PostBookingsResponse(bookings, data) ==
    IF \/ data.customerId = NoId \/ data.providerId = NoId
       \/ data.serviceId = NoId \/ data.date = NoDate
       \/ data.startTime = NoTime
    THEN [status |-> 400,
          message |-> "Missing required booking information"]
    ELSE IF data.serviceId \notin DOMAIN mockServices
    THEN [status |-> 404, message |-> "Service not found"]
    ELSE LET service == mockServices[data.serviceId]
             endTime == EndTimeOf(data.startTime, service.duration)
             availableSlots ==
                 generateAvailableSlots(bookings, data.providerId, data.date)
             isSlotAvailable ==
                 \E i \in 1..Len(availableSlots) :
                     availableSlots[i].start = data.startTime
         IN  IF ~isSlotAvailable
             THEN [status |-> 400,
                   message |-> "Selected time slot is not available"]
             ELSE [status |-> 201,
                   booking |->
                     [id |-> ToString(Len(bookings) + 1),
                      customerId |-> data.customerId,
                      providerId |-> data.providerId,
                      serviceId |-> data.serviceId,
                      date |-> data.date,
                      startTime |-> data.startTime,
                      endTime |-> endTime,
                      status |-> "pending",
                      totalPrice |-> service.price,
                      currency |-> service.currency]]

\* POST /api/bookings is received: the handler waits in `await delay()` and
\* `await request.json()`.  `during` records the clients whose requests are
\* in flight at that moment.
PostBookingsReceive(c, data) ==
    /\ clients[c].pc # "awaiting"
    /\ clients' = [k \in Clients |->
          IF k = c
          THEN [pc |-> "awaiting", data |-> data,
                during |-> {j \in Clients \ {c} : clients[j].pc = "awaiting"}]
          ELSE IF clients[k].pc = "idle" THEN clients[k]
          ELSE [clients[k] EXCEPT !.during = @ \ {c}]]
    /\ UNCHANGED <<today, mockBookings, walk, reviewVars,
                 availabilityResponse>>

\* a handler that pushes the booking before it checks the slot, and leaves
\* it in the ledger when the slot turns out to be taken
PostBookings_PushFirst(c) ==
    /\ clients[c].pc = "awaiting"
    /\ LET data == clients[c].data
           response == PostBookingsResponse(mockBookings, data)
           built == response.status = 201
                    \/ response.message = "Selected time slot is not available"
       IN  /\ built => Len(mockBookings) < 5 + MaxNewBookings
           /\ mockBookings' =
                  IF built
                  THEN Append(mockBookings,
                           [id |-> ToString(Len(mockBookings) + 1),
                            customerId |-> data.customerId,
                            providerId |-> data.providerId,
                            serviceId |-> data.serviceId,
                            date |-> data.date,
                            startTime |-> data.startTime,
                            endTime |-> EndTimeOf(data.startTime,
                                mockServices[data.serviceId].duration),
                            status |-> "pending",
                            totalPrice |-> mockServices[data.serviceId].price,
                            currency |->
                                mockServices[data.serviceId].currency])
                  ELSE mockBookings
           /\ clients' = [clients EXCEPT ![c] =
                  [pc |-> "done", status |-> response.status,
                   result |-> IF response.status = 201
                              THEN response.booking.id
                              ELSE response.message,
                   during |-> clients[c].during]]
    /\ UNCHANGED <<today, walk, reviewVars,
                 availabilityResponse>>

\* a handler that checks the slot before its awaits: the check sees the
\* ledger without the bookings pushed while the request was in flight
PostBookings_StaleCheck(c) ==
    /\ clients[c].pc = "awaiting"
    /\ LET PushedSince(b) ==
               \E k \in Clients \ {c} :
                   /\ clients[k].pc = "done"
                   /\ clients[k].status = 201
                   /\ clients[k].result = b.id
                   /\ (k \in clients[c].during \/ c \in clients[k].during)
           Before(b) == ~PushedSince(b)
           response == PostBookingsResponse(SelectSeq(mockBookings, Before),
                                            clients[c].data)
       IN  /\ response.status = 201 => Len(mockBookings) < 5 + MaxNewBookings
           /\ mockBookings' =
                  IF response.status = 201
                  THEN Append(mockBookings,
                           [response.booking EXCEPT
                               !.id = ToString(Len(mockBookings) + 1)])
                  ELSE mockBookings
           /\ clients' = [clients EXCEPT ![c] =
                  [pc |-> "done", status |-> response.status,
                   result |-> IF response.status = 201
                              THEN ToString(Len(mockBookings) + 1)
                              ELSE response.message,
                   during |-> clients[c].during]]
    /\ UNCHANGED <<today, walk, reviewVars,
                 availabilityResponse>>

\* POST /api/bookings after its awaits: validation, availability check and
\* push run without suspension
PostBookings(c) ==
    /\ clients[c].pc = "awaiting"
    /\ LET response == PostBookingsResponse(mockBookings, clients[c].data)
       IN  /\ response.status = 201 => Len(mockBookings) < 5 + MaxNewBookings
           /\ mockBookings' = IF response.status = 201
                              THEN Append(mockBookings, response.booking)
                              ELSE mockBookings
           /\ clients' = [clients EXCEPT ![c] =
                  [pc |-> "done", status |-> response.status,
                   result |-> IF response.status = 201
                              THEN response.booking.id
                              ELSE response.message,
                   during |-> clients[c].during]]
    /\ UNCHANGED <<today, walk, reviewVars,
                 availabilityResponse>>

\* PUT /api/bookings/:id with body `data`
PutBooking(id, data) ==
    /\ LET bookingIndex == FindIndex(mockBookings, id)
       IN  mockBookings' =
               IF bookingIndex = 0 THEN mockBookings
               ELSE [mockBookings EXCEPT
                        ![bookingIndex] = Spread(@, data)]
    /\ UNCHANGED <<today, clients, walk, reviewVars,
                 availabilityResponse>>

\* a cancellation that takes the booking out of the ledger
DeleteBooking_Remove(id) ==
    /\ LET bookingIndex == FindIndex(mockBookings, id)
       IN  mockBookings' =
               IF bookingIndex = 0 THEN mockBookings
               ELSE SubSeq(mockBookings, 1, bookingIndex - 1)
                        \o SubSeq(mockBookings, bookingIndex + 1,
                                  Len(mockBookings))
    /\ UNCHANGED <<today, clients, walk, reviewVars,
                 availabilityResponse>>

\* DELETE /api/bookings/:id
DeleteBooking(id) ==
    /\ LET bookingIndex == FindIndex(mockBookings, id)
       IN  mockBookings' =
               IF bookingIndex = 0 THEN mockBookings
               ELSE [mockBookings EXCEPT
                        ![bookingIndex].status = "cancelled"]
    /\ UNCHANGED <<today, clients, walk, reviewVars,
                 availabilityResponse>>

----------------------------------------------------------------------------
(* Handlers of /api/reviews.  Every await of a handler precedes its first  *)
(* read of the arrays, so the body of a handler is one step.               *)

NoRating == 0

\* no handler of /api/reviews has answered yet
NoResponse == [status |-> 0, message |-> ""]

\* reduce((sum, review) => sum + review.rating, 0)
RECURSIVE TotalRating(_)
TotalRating(reviews) ==
    IF reviews = <<>> THEN 0
    ELSE Head(reviews).rating + TotalRating(Tail(reviews))

\* mockReviews.filter(r => r.providerId === providerId)
ProviderReviews(reviews, providerId) ==
    LET OfProvider(r) == r.providerId = providerId
    IN  SelectSeq(reviews, OfProvider)

\* "Update provider rating" after a review was pushed or edited; the count
\* is written only where the handler writes it
UpdatedStats(stats, reviews, providerId, withCount) ==
    LET providerReviews == ProviderReviews(reviews, providerId)
    IN  IF providerId \notin DOMAIN stats THEN stats
        ELSE [stats EXCEPT ![providerId] =
                [rating |-> <<TotalRating(providerReviews),
                              Len(providerReviews)>>,
                 reviewCount |-> IF withCount THEN Len(providerReviews)
                                 ELSE @.reviewCount]]

\* a creation that does not look at the status of the booking
PostReview_AnyStatus(data) ==
    /\ IF \/ data.bookingId = NoId \/ data.customerId = NoId
          \/ data.providerId = NoId \/ data.serviceId = NoId
          \/ data.rating = NoRating
       THEN /\ reviewResponse' =
                  [status |-> 400,
                   message |-> "Missing required review information"]
            /\ UNCHANGED <<mockReviews, providerStats>>
       ELSE IF FindIndex(mockBookings, data.bookingId) = 0
       THEN /\ reviewResponse' =
                  [status |-> 404, message |-> "Booking not found"]
            /\ UNCHANGED <<mockReviews, providerStats>>
       ELSE IF \E i \in 1..Len(mockReviews) :
                   mockReviews[i].bookingId = data.bookingId
       THEN /\ reviewResponse' =
                  [status |-> 400,
                   message |-> "Review already exists for this booking"]
            /\ UNCHANGED <<mockReviews, providerStats>>
       ELSE LET newReview ==
                    [id |-> ToString(Len(mockReviews) + 1),
                     bookingId |-> data.bookingId,
                     customerId |-> data.customerId,
                     providerId |-> data.providerId,
                     serviceId |-> data.serviceId,
                     rating |-> data.rating]
                pushed == Append(mockReviews, newReview)
            IN  /\ mockReviews' = pushed
                /\ providerStats' =
                       UpdatedStats(providerStats, pushed, data.providerId,
                                    TRUE)
                /\ reviewResponse' = [status |-> 201, message |-> newReview.id]
    /\ UNCHANGED <<bookingVars, availabilityResponse>>

\* POST /api/reviews with body `data`
PostReview(data) ==
    /\ IF \/ data.bookingId = NoId \/ data.customerId = NoId
          \/ data.providerId = NoId \/ data.serviceId = NoId
          \/ data.rating = NoRating
       THEN /\ reviewResponse' =
                  [status |-> 400,
                   message |-> "Missing required review information"]
            /\ UNCHANGED <<mockReviews, providerStats>>
       ELSE IF FindIndex(mockBookings, data.bookingId) = 0
       THEN /\ reviewResponse' =
                  [status |-> 404, message |-> "Booking not found"]
            /\ UNCHANGED <<mockReviews, providerStats>>
       ELSE IF mockBookings[FindIndex(mockBookings, data.bookingId)].status
                   # "completed"
       THEN /\ reviewResponse' =
                  [status |-> 400,
                   message |-> "Can only review completed bookings"]
            /\ UNCHANGED <<mockReviews, providerStats>>
       ELSE IF \E i \in 1..Len(mockReviews) :
                   mockReviews[i].bookingId = data.bookingId
       THEN /\ reviewResponse' =
                  [status |-> 400,
                   message |-> "Review already exists for this booking"]
            /\ UNCHANGED <<mockReviews, providerStats>>
       ELSE LET newReview ==
                    [id |-> ToString(Len(mockReviews) + 1),
                     bookingId |-> data.bookingId,
                     customerId |-> data.customerId,
                     providerId |-> data.providerId,
                     serviceId |-> data.serviceId,
                     rating |-> data.rating]
                pushed == Append(mockReviews, newReview)
            IN  /\ mockReviews' = pushed
                /\ providerStats' =
                       UpdatedStats(providerStats, pushed, data.providerId,
                                    TRUE)
                /\ reviewResponse' = [status |-> 201, message |-> newReview.id]
    /\ UNCHANGED <<bookingVars, availabilityResponse>>

\* PUT /api/reviews/:id with body `data`
PutReview(id, data) ==
    /\ LET reviewIndex == FindIndex(mockReviews, id)
       IN  IF reviewIndex = 0
           THEN /\ reviewResponse' =
                      [status |-> 404, message |-> "Review not found"]
                /\ UNCHANGED <<mockReviews, providerStats>>
           ELSE LET edited ==
                        [mockReviews EXCEPT ![reviewIndex].rating =
                            IF data.rating # NoRating THEN data.rating ELSE @]
                IN  /\ mockReviews' = edited
                    /\ providerStats' =
                           UpdatedStats(providerStats, edited,
                                        edited[reviewIndex].providerId, FALSE)
                    /\ reviewResponse' = [status |-> 200, message |-> id]
    /\ UNCHANGED <<bookingVars, availabilityResponse>>

\* mockReviews.splice(reviewIndex, 1)
Splice(reviews, reviewIndex) ==
    SubSeq(reviews, 1, reviewIndex - 1)
        \o SubSeq(reviews, reviewIndex + 1, Len(reviews))

\* a deletion that sets the rating to 0 when no review is left
DeleteReview_ResetRating(id) ==
    /\ LET reviewIndex == FindIndex(mockReviews, id)
       IN  IF reviewIndex = 0
           THEN /\ reviewResponse' =
                      [status |-> 404, message |-> "Review not found"]
                /\ UNCHANGED <<mockReviews, providerStats>>
           ELSE LET providerId == mockReviews[reviewIndex].providerId
                    spliced == Splice(mockReviews, reviewIndex)
                    providerReviews == ProviderReviews(spliced, providerId)
                IN  /\ mockReviews' = spliced
                    /\ providerStats' =
                         IF providerId \notin DOMAIN providerStats
                         THEN providerStats
                         ELSE [providerStats EXCEPT ![providerId] =
                                 [rating |->
                                    IF Len(providerReviews) > 0
                                    THEN <<TotalRating(providerReviews),
                                           Len(providerReviews)>>
                                    ELSE <<0, 1>>,
                                  reviewCount |-> Len(providerReviews)]]
                    /\ reviewResponse' =
                           [status |-> 200,
                            message |-> "Review deleted successfully"]
    /\ UNCHANGED <<bookingVars, availabilityResponse>>

\* DELETE /api/reviews/:id
DeleteReview(id) ==
    /\ LET reviewIndex == FindIndex(mockReviews, id)
       IN  IF reviewIndex = 0
           THEN /\ reviewResponse' =
                      [status |-> 404, message |-> "Review not found"]
                /\ UNCHANGED <<mockReviews, providerStats>>
           ELSE LET providerId == mockReviews[reviewIndex].providerId
                    spliced == Splice(mockReviews, reviewIndex)
                    providerReviews == ProviderReviews(spliced, providerId)
                IN  /\ mockReviews' = spliced
                    /\ providerStats' =
                         IF providerId \notin DOMAIN providerStats
                         THEN providerStats
                         ELSE [providerStats EXCEPT ![providerId] =
                                 [rating |->
                                    IF Len(providerReviews) > 0
                                    THEN <<TotalRating(providerReviews),
                                           Len(providerReviews)>>
                                    ELSE @.rating,
                                  reviewCount |-> Len(providerReviews)]]
                    /\ reviewResponse' =
                           [status |-> 200,
                            message |-> "Review deleted successfully"]
    /\ UNCHANGED <<bookingVars, availabilityResponse>>

\* the response of GET /api/availability?providerId=..&date=.. over the
\* ledger `bookings`
GetAvailabilityResponse(bookings, providerId, date) ==
    IF providerId = NoId \/ date = NoDate
    THEN [status |-> 400, message |-> "Provider ID and date are required"]
    ELSE [status |-> 200, providerId |-> providerId, date |-> date,
          availableSlots |-> generateAvailableSlots(bookings, providerId,
                                                    date)]

\* a query that holds the first slot it offers with a pending booking
GetAvailability_Hold(providerId, date) ==
    /\ LET response ==
               GetAvailabilityResponse(mockBookings, providerId, date)
       IN  /\ availabilityResponse' = response
           /\ mockBookings' =
                  IF response.status = 200 /\ response.availableSlots # <<>>
                     /\ Len(mockBookings) < 5 + MaxNewBookings
                  THEN Append(mockBookings,
                           [id |-> ToString(Len(mockBookings) + 1),
                            customerId |-> NoId,
                            providerId |-> providerId,
                            serviceId |-> NoId,
                            date |-> date,
                            startTime |-> response.availableSlots[1].start,
                            endTime |-> response.availableSlots[1].end,
                            status |-> "pending",
                            totalPrice |-> 0,
                            currency |-> ""])
                  ELSE mockBookings
    /\ UNCHANGED <<today, clients, walk, reviewVars>>

\* GET /api/availability
GetAvailability(providerId, date) ==
    /\ UNCHANGED <<today, mockBookings, clients, walk, reviewVars>>
    /\ availabilityResponse' =
           GetAvailabilityResponse(mockBookings, providerId, date)

Init ==
    /\ today \in TodayChoices
    /\ mockBookings = InitialBookings(today)
    /\ clients = [c \in Clients |-> Idle]
    /\ walk = NoWalk
    /\ mockReviews = InitialReviews
    /\ providerStats = InitialStats
    /\ reviewResponse = NoResponse
    /\ availabilityResponse = NoResponse

Next ==
    \/ \E c \in Clients, data \in BookingRequests :
           PostBookingsReceive(c, data)
    \/ \E c \in Clients : PostBookings(c)
    \/ \E id \in BookingIds, data \in BookingUpdates : PutBooking(id, data)
    \/ \E id \in BookingIds : DeleteBooking(id)

Spec == Init /\ [][Next]_vars

----------------------------------------------------------------------------
(* The slot walk on its own: lines 731-758 of generateAvailableSlots run   *)
(* on the working periods of one day.                                      *)

\* the "HH:mm" strings on the quarter hours from 08:00
WalkTimes ==
    {<<h, m>> : h \in 8..(8 + WalkHours - 1), m \in {0, 15, 30, 45}}
    \cup {<<8 + WalkHours, 0>>}

\* the periods {start, end} with start < end
WalkPeriods ==
    {pd \in [start : WalkTimes, end : WalkTimes] : StrLT(pd.start, pd.end)}

\* the working hours of a day: at most n ordered, pairwise disjoint periods
RECURSIVE PeriodLists(_)
PeriodLists(n) ==
    IF n = 0 THEN {<<>>}
    ELSE LET shorter == PeriodLists(n - 1)
             longest == {l \in shorter : Len(l) = n - 1}
             Follows(l, pd) == l = <<>> \/ StrLE(l[Len(l)].end, pd.start)
         IN  shorter \cup
             UNION { {Append(l, pd) : pd \in {q \in WalkPeriods : Follows(l, q)}}
                     : l \in longest }

\* the working day of the example: 09:00-17:00
ExampleDay == <<[start |-> <<9, 0>>, end |-> <<17, 0>>]>>

InitWalk ==
    /\ today \in TodayChoices
    /\ mockBookings = InitialBookings(today)
    /\ clients = [c \in Clients |-> Idle]
    /\ mockReviews = InitialReviews
    /\ providerStats = InitialStats
    /\ reviewResponse = NoResponse
    /\ availabilityResponse = NoResponse
    /\ \E periods \in PeriodLists(MaxPeriods) \cup {ExampleDay} :
           walk = [periods |-> periods, slots |-> <<>>, done |-> FALSE]

\* const slots = []; workingHours.slots.forEach(...)
WalkDay ==
    /\ ~walk.done
    /\ walk' = [walk EXCEPT !.slots = GenerateSlots(walk.periods, <<>>),
                            !.done = TRUE]
    /\ UNCHANGED <<today, mockBookings, clients, reviewVars,
                 availabilityResponse>>

NextWalk == WalkDay

SpecWalk == InitWalk /\ [][NextWalk]_vars

\* the booking requests on their own: no status update, no cancellation
NextPost ==
    \/ \E c \in Clients, data \in BookingRequests :
           PostBookingsReceive(c, data)
    \/ \E c \in Clients : PostBookings(c)

SpecPost == Init /\ [][NextPost]_vars

\* a Monday on which no provider has a booking when the module is loaded
NextMonday == <<2025, 6, 16>>

\* the bodies of POST /api/bookings of customers booking provider 1 or 2 on
\* one of two Mondays
VisitRequests ==
    { Req("1", "1", "1", NextMonday, <<10, 0>>),
      Req("1", "1", "1", NextMonday, <<10, 30>>),
      Req("1", "1", "1", Monday, <<10, 0>>),
      Req("3", "2", "5", NextMonday, <<10, 0>>) }

NextVisit ==
    \/ \E c \in Clients, data \in VisitRequests :
           PostBookingsReceive(c, data)
    \/ \E c \in Clients : PostBookings(c)
    \/ \E id \in BookingIds, data \in BookingUpdates : PutBooking(id, data)
    \/ \E id \in BookingIds : DeleteBooking(id)

SpecVisit == Init /\ [][NextVisit]_vars

\* the same requests with cancellations and no other change of status
NextPairs ==
    \/ \E c \in Clients, data \in VisitRequests :
           PostBookingsReceive(c, data)
    \/ \E c \in Clients : PostBookings(c)
    \/ \E id \in BookingIds : DeleteBooking(id)

SpecPairs == Init /\ [][NextPairs]_vars

\* bodies of POST /api/bookings that the handler may refuse: a missing
\* customer, an unknown service, an unknown provider, a service of another
\* provider, a day on which the provider is closed, and a start that is
\* free only until it is booked
RejectRequests ==
    { Req(NoId, "1", "1", Monday, <<10, 0>>),
      Req("1", "1", "99", Monday, <<10, 0>>),
      Req("1", "9", "1", Monday, <<10, 0>>),
      Req("1", "1", "6", Monday, <<11, 0>>),
      Req("1", "1", "1", Sunday, <<10, 0>>),
      Req("1", "1", "1", Monday, <<10, 0>>) }

NextReject ==
    \/ \E c \in Clients, data \in RejectRequests :
           PostBookingsReceive(c, data)
    \/ \E c \in Clients : PostBookings(c)
    \/ \E id \in BookingIds, data \in BookingUpdates : PutBooking(id, data)
    \/ \E id \in BookingIds : DeleteBooking(id)

SpecReject == Init /\ [][NextReject]_vars

----------------------------------------------------------------------------
(* The filter of generateAvailableSlots on its own: the slots of one       *)
(* working period filtered against one booking.                            *)

\* the working period of the runs: from 08:00 to the last walk time
FilterDay == <<[start |-> <<8, 0>>, end |-> <<8 + WalkHours, 0>>]>>

InitFilter ==
    /\ today \in TodayChoices
    /\ mockBookings = InitialBookings(today)
    /\ clients = [c \in Clients |-> Idle]
    /\ mockReviews = InitialReviews
    /\ providerStats = InitialStats
    /\ reviewResponse = NoResponse
    /\ availabilityResponse = NoResponse
    /\ \E window \in WalkPeriods :
           walk = [periods |-> FilterDay,
                   booking |-> [startTime |-> window.start,
                                endTime |-> window.end],
                   slots |-> <<>>, done |-> FALSE]

\* return slots.filter(slot => !bookedSlots.some(...))
FilterSlots ==
    /\ ~walk.done
    /\ walk' = [walk EXCEPT
                  !.slots = FilterBooked(GenerateSlots(walk.periods, <<>>),
                                         <<walk.booking>>),
                  !.done = TRUE]
    /\ UNCHANGED <<today, mockBookings, clients, reviewVars,
                   availabilityResponse>>

NextFilter == FilterSlots

SpecFilter == InitFilter /\ [][NextFilter]_vars

----------------------------------------------------------------------------
(* generateTimeSlots(startHour, endHour, intervalMinutes), one iteration   *)
(* of its while loop per step.                                             *)

\* the most slots a run is followed for
MaxSlots == 6

\* the arguments of the runs
SlotHours == {8, 9, 10}
SlotIntervals == {-30, 0, 20, 30, 60}

InitTimeSlots ==
    /\ today \in TodayChoices
    /\ mockBookings = InitialBookings(today)
    /\ clients = [c \in Clients |-> Idle]
    /\ mockReviews = InitialReviews
    /\ providerStats = InitialStats
    /\ reviewResponse = NoResponse
    /\ availabilityResponse = NoResponse
    /\ \E startHour \in SlotHours, endHour \in SlotHours,
          intervalMinutes \in SlotIntervals :
           walk = [startHour |-> startHour, endHour |-> endHour,
                   intervalMinutes |-> intervalMinutes,
                   currentHour |-> startHour, currentMinute |-> 0,
                   slots |-> <<>>, pc |-> "while"]

\* the body of `while (currentHour < endHour)`
TimeSlotsLoop ==
    /\ walk.pc = "while"
    /\ walk.currentHour < walk.endHour
    /\ Len(walk.slots) < MaxSlots
    /\ LET currentMinute == walk.currentMinute + walk.intervalMinutes
       IN  walk' = [walk EXCEPT
                      !.slots = Append(@, <<walk.currentHour,
                                            walk.currentMinute>>),
                      !.currentHour = IF currentMinute >= 60 THEN @ + 1
                                      ELSE @,
                      !.currentMinute = IF currentMinute >= 60 THEN 0
                                        ELSE currentMinute]
    /\ UNCHANGED <<today, mockBookings, clients, reviewVars,
                   availabilityResponse>>

\* `return slots` once the loop condition is false
TimeSlotsReturn ==
    /\ walk.pc = "while"
    /\ ~(walk.currentHour < walk.endHour)
    /\ walk' = [walk EXCEPT !.pc = "returned"]
    /\ UNCHANGED <<today, mockBookings, clients, reviewVars,
                   availabilityResponse>>

NextTimeSlots == TimeSlotsLoop \/ TimeSlotsReturn

SpecTimeSlots == InitTimeSlots /\ [][NextTimeSlots]_vars

----------------------------------------------------------------------------
(* Queries of the availability between requests that change the ledger.    *)

\* the parameters of GET /api/availability: provider 1 on an open day and
\* on a closed day, provider 2, an unknown provider and a missing provider
QueryParams ==
    { <<"1", Monday>>, <<"1", Sunday>>, <<"2", Monday>>, <<"9", Monday>>,
      <<NoId, Monday>> }

\* the bodies of POST /api/bookings between the queries
QueryRequests ==
    { Req("1", "1", "1", Monday, <<10, 0>>),
      Req("3", "2", "5", Monday, <<10, 0>>) }

NextQuery ==
    \/ \E params \in QueryParams : GetAvailability(params[1], params[2])
    \/ \E c \in Clients, data \in QueryRequests :
           PostBookingsReceive(c, data)
    \/ \E c \in Clients : PostBookings(c)
    \/ \E id \in BookingIds : DeleteBooking(id)

SpecQuery == Init /\ [][NextQuery]_vars

----------------------------------------------------------------------------
(* The reviews: /api/reviews together with the status updates of the       *)
(* bookings that are reviewed.                                             *)

\* the most reviews the array is let to hold
MaxReviews == 3

RvReq(b, c, p, s, r) ==
    [bookingId |-> b, customerId |-> c, providerId |-> p, serviceId |-> s,
     rating |-> r]

\* bodies of POST /api/reviews: for the reviewed booking 1, for booking 2,
\* for no booking, and one without a rating
ReviewRequests ==
    { RvReq("1", "1", "1", "1", 3),
      RvReq("2", "1", "2", "6", 4),
      RvReq("99", "1", "1", "1", 5),
      RvReq("2", "1", "2", "6", NoRating) }

\* the ids in the paths of PUT and DELETE /api/reviews/:id
ReviewIds == {"1", "2", "3"}

\* bodies of PUT /api/reviews/:id: a new rating, and a comment alone
ReviewUpdates == {[rating |-> 2], [rating |-> NoRating]}

\* the bookings whose status is updated
ReviewedBookingIds == {"1", "2"}

NextReview ==
    \/ \E data \in ReviewRequests :
           Len(mockReviews) < MaxReviews /\ PostReview(data)
    \/ \E id \in ReviewIds, data \in ReviewUpdates : PutReview(id, data)
    \/ \E id \in ReviewIds : DeleteReview(id)
    \/ \E id \in ReviewedBookingIds, data \in BookingUpdates :
           PutBooking(id, data)

SpecReview == Init /\ [][NextReview]_vars

----------------------------------------------------------------------------
(* Vocabulary of the properties.                                           *)

\* a booking that occupies its time: pending or confirmed
Occupying(b) == b.status \in {"pending", "confirmed"}

\* the half-open windows [s1, e1) and [s2, e2) of "HH:mm" strings intersect
Intersects(s1, e1, s2, e2) == StrLT(s1, e2) /\ StrLT(s2, e1)

\* the window [start, start + duration) of a service booked at `start`
WindowEnd(start, duration) ==
    <<(Minutes(start) + duration) \div 60, (Minutes(start) + duration) % 60>>

\* bookings a and b are of one provider on one date and their windows
\* [startTime, endTime) intersect
DoubleBooked(a, b) ==
    /\ a.providerId = b.providerId
    /\ a.date = b.date
    /\ Intersects(a.startTime, a.endTime, b.startTime, b.endTime)

\* the providers, services and dates the properties range over
ProviderIds == DOMAIN mockProviders
ServiceIds == DOMAIN mockServices
Dates == {Monday, Sunday} \cup {mockBookings[i].date : i \in 1..Len(mockBookings)}

\* client c's request is being answered in this step
Answered(c) == clients[c].pc = "awaiting" /\ clients'[c].pc = "done"

SlotUnavailable == "Selected time slot is not available"

\* the request carries every required field and names a known service
WellFormed(data) ==
    /\ data.customerId # NoId /\ data.providerId # NoId
    /\ data.serviceId # NoId /\ data.date # NoDate
    /\ data.startTime # NoTime
    /\ data.serviceId \in ServiceIds

\* the booking of the ledger with the given id
BookingOf(id) == mockBookings[FindIndex(mockBookings, id)]

\* clients a and b had their requests in flight at the same time
Concurrent(a, b) ==
    \/ a \in clients[b].during
    \/ b \in clients[a].during

\* client c's request was answered with a created booking
Succeeded(c) == clients[c].pc = "done" /\ clients[c].status = 201

----------------------------------------------------------------------------
(* C1.  In every reachable state, for every provider and date, the         *)
(* pending or confirmed bookings have pairwise non-intersecting half-open  *)
(* windows [startTime, endTime).                                           *)
C1_NoDoubleBooking ==
    \A i, j \in 1..Len(mockBookings) :
        (i < j /\ Occupying(mockBookings[i]) /\ Occupying(mockBookings[j]))
        => ~DoubleBooked(mockBookings[i], mockBookings[j])

(* C2.  Of two booking requests that were in flight at the same time, for  *)
(* the same provider and date and with intersecting windows                *)
(* [startTime, startTime + duration), at most one succeeds.                *)
C2_AtMostOneConcurrentSuccess ==
    \A a, b \in Clients :
        (a # b /\ Succeeded(a) /\ Succeeded(b) /\ Concurrent(a, b))
        => ~DoubleBooked(BookingOf(clients[a].result),
                         BookingOf(clients[b].result))

(* C3.  A booking request succeeds only if its start time is in the        *)
(* availability computed from the ledger as it is when the request is      *)
(* answered; a well-formed request for a start time at which a pending or  *)
(* confirmed booking of that provider and date starts is answered 400      *)
(* "Selected time slot is not available".                                  *)
C3_FreshRecheck ==
    [][\A c \in Clients :
          Answered(c) =>
            LET data == clients[c].data
                availableSlots ==
                    generateAvailableSlots(mockBookings, data.providerId,
                                           data.date)
                offered == \E k \in 1..Len(availableSlots) :
                               availableSlots[k].start = data.startTime
                booked == \E i \in 1..Len(mockBookings) :
                               /\ Occupying(mockBookings[i])
                               /\ mockBookings[i].providerId = data.providerId
                               /\ mockBookings[i].date = data.date
                               /\ mockBookings[i].startTime = data.startTime
            IN  /\ clients'[c].status = 201 => offered
                /\ (WellFormed(data) /\ booked)
                   => /\ clients'[c].status = 400
                      /\ clients'[c].result = SlotUnavailable
                      /\ mockBookings' = mockBookings]_vars

\* a request has been refused as unavailable while the ledger holds a booking
\* created by an earlier request
C3_Witness ==
    \E c \in Clients :
        /\ clients[c].pc = "done"
        /\ clients[c].status = 400
        /\ clients[c].result = SlotUnavailable
        /\ \E i \in 6..Len(mockBookings) : Occupying(mockBookings[i])

(* C4.  Availability offers a start time s only if, for every service, the *)
(* window [s, s + duration) intersects no pending or confirmed booking of  *)
(* that provider on that date.                                             *)
C4_OfferedWindowFree ==
    \A p \in ProviderIds, sid \in ServiceIds, d \in Dates :
      mockServices[sid].providerId = p =>
        LET availableSlots == generateAvailableSlots(mockBookings, p, d)
        IN  \A k \in 1..Len(availableSlots) :
              \A i \in 1..Len(mockBookings) :
                (/\ Occupying(mockBookings[i])
                 /\ mockBookings[i].providerId = p
                 /\ mockBookings[i].date = d)
                => ~Intersects(availableSlots[k].start,
                               WindowEnd(availableSlots[k].start,
                                         mockServices[sid].duration),
                               mockBookings[i].startTime,
                               mockBookings[i].endTime)

(* C5.  Availability offers a start time s, for a service of the provider, *)
(* only if s + duration is not later than the end of the working period    *)
(* that contains s.                                                        *)
C5_OfferedFinishesBeforeClose ==
    \A p \in ProviderIds, sid \in ServiceIds, d \in Dates :
        mockServices[sid].providerId = p =>
          LET availableSlots == generateAvailableSlots(mockBookings, p, d)
              periods == mockProviders[p].workingHours[getDay(d)].slots
          IN  \A k \in 1..Len(availableSlots) :
                \E n \in 1..Len(periods) :
                  /\ StrLE(periods[n].start, availableSlots[k].start)
                  /\ StrLT(availableSlots[k].start, periods[n].end)
                  /\ StrLE(WindowEnd(availableSlots[k].start,
                                     mockServices[sid].duration),
                           periods[n].end)

(* C6.  A booking request for [start, start + duration) is accepted only   *)
(* if no pending or confirmed booking [bStart, bEnd) of that provider and  *)
(* date has start < bEnd and bStart < start + duration.                    *)
C6_ConflictIsHalfOpenOverlap ==
    [][\A c \in Clients :
          (Answered(c) /\ clients'[c].status = 201) =>
            LET data == clients[c].data
                end == WindowEnd(data.startTime,
                                 mockServices[data.serviceId].duration)
            IN  \A i \in 1..Len(mockBookings) :
                  (/\ Occupying(mockBookings[i])
                   /\ mockBookings[i].providerId = data.providerId
                   /\ mockBookings[i].date = data.date)
                  => ~Intersects(data.startTime, end,
                                 mockBookings[i].startTime,
                                 mockBookings[i].endTime)]_vars

\* the "HH:mm" string of a number of minutes since midnight
TimeOfMinutes(n) == <<n \div 60, n % 60>>

\* the slots [start + k*g, start + (k+1)*g) of one period, k = 0, 1, ...,
\* as long as start + (k+1)*g <= end
StepsOf(period) ==
    LET first == Minutes(period.start)
        count == (Minutes(period.end) - first) \div SlotMinutes
    IN  [k \in 1..count |->
            [start |-> TimeOfMinutes(first + (k - 1) * SlotMinutes),
             end   |-> TimeOfMinutes(first + k * SlotMinutes)]]

\* the slots of the periods of a day, period after period
RECURSIVE StepsOfDay(_)
StepsOfDay(periods) ==
    IF periods = <<>> THEN <<>>
    ELSE StepsOf(Head(periods)) \o StepsOfDay(Tail(periods))

(* C7.  The slot walk emits, for every working period [start, end) and the *)
(* 30-minute step g, exactly the slots [start + k*g, start + (k+1)*g) with *)
(* start + (k+1)*g <= end, in chronological order, period after period:    *)
(* none for a period shorter than g, no slot across two periods, and for   *)
(* 09:00-17:00 the 16 slots from {09:00, 09:30} to {16:30, 17:00}.         *)
C7_SlotWalk ==
    walk.done =>
      /\ walk.slots = StepsOfDay(walk.periods)
      /\ \A k \in 1..Len(walk.slots) :
           \E n \in 1..Len(walk.periods) :
             /\ StrLE(walk.periods[n].start, walk.slots[k].start)
             /\ StrLE(walk.slots[k].end, walk.periods[n].end)
      /\ walk.periods = ExampleDay =>
           /\ Len(walk.slots) = 16
           /\ walk.slots[1] = [start |-> <<9, 0>>, end |-> <<9, 30>>]
           /\ walk.slots[16] = [start |-> <<16, 30>>, end |-> <<17, 0>>]

\* the walk has run on two periods, the first shorter than a slot and the
\* second ending between two steps, and has emitted slots
C7_Witness ==
    /\ walk.done
    /\ Len(walk.periods) = 2
    /\ Minutes(walk.periods[1].end) - Minutes(walk.periods[1].start)
           < SlotMinutes
    /\ (Minutes(walk.periods[2].end) - Minutes(walk.periods[2].start))
           % SlotMinutes # 0
    /\ Len(walk.slots) >= 2

\* the status changes the transition table allows
AllowedTransitions ==
    { <<"pending", "confirmed">>, <<"pending", "cancelled">>,
      <<"confirmed", "cancelled">>, <<"confirmed", "completed">> }

(* C8.  A status update (PUT /api/bookings/:id) changes the status of a    *)
(* booking only along pending->confirmed, pending->cancelled,              *)
(* confirmed->cancelled or confirmed->completed; every other requested     *)
(* change leaves the booking as it was.                                    *)
C8_OnlyAllowedTransitions ==
    [][\A id \in BookingIds, data \in BookingUpdates :
          PutBooking(id, data) =>
            \A i \in 1..Len(mockBookings) :
              \/ mockBookings'[i] = mockBookings[i]
              \/ <<mockBookings[i].status, mockBookings'[i].status>>
                     \in AllowedTransitions]_vars

(* C9.  Once the status of a booking is cancelled or completed, no step    *)
(* changes it.                                                             *)
C9_TerminalStatuses ==
    [][\A i \in 1..Len(mockBookings) :
          mockBookings[i].status \in {"cancelled", "completed"}
          => mockBookings'[i].status = mockBookings[i].status]_vars

(* C10.  A booking request that succeeds appends exactly one booking to    *)
(* the ledger and changes no other: its status is pending, its endTime is  *)
(* the requested start time plus the duration of the service, and its      *)
(* totalPrice and currency are the price and currency of the service.      *)
C10_CreatedBooking ==
    [][\A c \in Clients :
          (Answered(c) /\ clients'[c].status = 201) =>
            LET data    == clients[c].data
                service == mockServices[data.serviceId]
                created == mockBookings'[Len(mockBookings')]
            IN  /\ Len(mockBookings') = Len(mockBookings) + 1
                /\ SubSeq(mockBookings', 1, Len(mockBookings)) = mockBookings
                /\ created.id = clients'[c].result
                /\ created.status = "pending"
                /\ created.customerId = data.customerId
                /\ created.providerId = data.providerId
                /\ created.serviceId = data.serviceId
                /\ created.date = data.date
                /\ created.startTime = data.startTime
                /\ Minutes(created.endTime)
                       = Minutes(data.startTime) + service.duration
                /\ created.totalPrice = service.price
                /\ created.currency = service.currency]_vars

\* a request for the 90-minute service 5 has created a booking
C10_Witness ==
    \E c \in Clients :
        /\ Succeeded(c)
        /\ BookingOf(clients[c].result).serviceId = "5"
        /\ BookingOf(clients[c].result).endTime = <<11, 30>>

\* every booking, whatever its status, of a provider on a date
BookingsOn(providerId, date) ==
    LET On(b) == b.providerId = providerId /\ b.date = date
    IN  SelectSeq(mockBookings, On)

\* the start times of a list of slots
StartsOf(slots) == {slots[k].start : k \in 1..Len(slots)}

\* the only booking of provider 1 on NextMonday is the pending booking of
\* the 60-minute service 1 at 10:00
BookedTenOClock ==
    LET held == BookingsOn("1", NextMonday)
    IN  /\ Len(held) = 1
        /\ held[1].startTime = <<10, 0>>
        /\ held[1].serviceId = "1"
        /\ held[1].status = "pending"

Covers(b, t) == StrLE(b.startTime, t) /\ StrLT(t, b.endTime)

\* a cancelled or completed booking of provider p on date d covers the time
\* t, and no pending or confirmed one does
Freed(p, d, t) ==
    /\ \E i \in 1..Len(mockBookings) :
           /\ mockBookings[i].status \in {"cancelled", "completed"}
           /\ mockBookings[i].providerId = p
           /\ mockBookings[i].date = d
           /\ Covers(mockBookings[i], t)
    /\ \A i \in 1..Len(mockBookings) :
           (/\ Occupying(mockBookings[i])
            /\ mockBookings[i].providerId = p
            /\ mockBookings[i].date = d)
           => ~Covers(mockBookings[i], t)

\* every freed start time of the working day is offered
FreedIsOffered ==
    \A i \in 1..Len(mockBookings) :
        mockBookings[i].status \in {"cancelled", "completed"}
        => LET p == mockBookings[i].providerId
               d == mockBookings[i].date
           IN  \A t \in StartsOf(generateAvailableSlots(<<>>, p, d)) :
                   Freed(p, d, t)
                   => t \in StartsOf(generateAvailableSlots(mockBookings,
                                                            p, d))

\* a well-formed request for a freed start time is answered 201 with a new
\* booking at that start
FreedIsBookable ==
    \A c \in Clients :
        (/\ Answered(c)
         /\ WellFormed(clients[c].data)
         /\ clients[c].data.startTime
                \in StartsOf(generateAvailableSlots(<<>>,
                       clients[c].data.providerId, clients[c].data.date))
         /\ Freed(clients[c].data.providerId, clients[c].data.date,
                  clients[c].data.startTime))
        => /\ clients'[c].status = 201
           /\ Len(mockBookings') = Len(mockBookings) + 1
           /\ mockBookings'[Len(mockBookings')].startTime
                  = clients[c].data.startTime
           /\ mockBookings'[Len(mockBookings')].status = "pending"

(* C12.  Only pending and confirmed bookings block availability: every     *)
(* start time covered by a cancelled or completed booking and by no        *)
(* pending or confirmed booking of that provider and date is offered, and  *)
(* a well-formed request for it succeeds.                                  *)
C12_TerminalBookingsFreeTheirSlots ==
    []FreedIsOffered /\ [][FreedIsBookable]_vars

\* a booking made by a request was cancelled or completed and a later
\* request has booked its start time again
C12_Witness ==
    \E i, j \in 6..Len(mockBookings) :
        /\ i < j
        /\ mockBookings[i].status \in {"cancelled", "completed"}
        /\ Occupying(mockBookings[j])
        /\ mockBookings[j].providerId = mockBookings[i].providerId
        /\ mockBookings[j].date = mockBookings[i].date
        /\ mockBookings[j].startTime = mockBookings[i].startTime

\* the ledger after the step holds every booking of the ledger before it,
\* under the id it had
NothingRemoved ==
    /\ Len(mockBookings') >= Len(mockBookings)
    /\ \A i \in 1..Len(mockBookings) :
           LET found == FindIndex(mockBookings', mockBookings[i].id)
           IN  /\ found # 0
               /\ mockBookings'[found].id = mockBookings[i].id
               /\ mockBookings'[found].customerId = mockBookings[i].customerId
               /\ mockBookings'[found].date = mockBookings[i].date
               /\ mockBookings'[found].startTime = mockBookings[i].startTime

\* a cancellation changes nothing but the status of the booking it names,
\* which becomes "cancelled"
CancelSetsStatusOnly ==
    \A id \in BookingIds :
        DeleteBooking(id) =>
            /\ Len(mockBookings') = Len(mockBookings)
            /\ \A i \in 1..Len(mockBookings) :
                   mockBookings'[i] =
                       IF mockBookings[i].id = id
                       THEN [mockBookings[i] EXCEPT !.status = "cancelled"]
                       ELSE mockBookings[i]

(* C13.  Cancelling a booking only sets its status to cancelled, and no    *)
(* creation, status update or cancellation removes a booking: the number   *)
(* of bookings never decreases and every booking of the ledger is still    *)
(* found under its id after every step.                                    *)
C13_BookingsAreKept ==
    [][NothingRemoved /\ CancelSetsStatusOnly]_vars

\* a booking created by a request has been cancelled and is still in the
\* ledger under its id
C13_Witness ==
    \E c \in Clients :
        /\ Succeeded(c)
        /\ FindIndex(mockBookings, clients[c].result) # 0
        /\ BookingOf(clients[c].result).status = "cancelled"

(* C14.  A booking request that is answered with anything but a created    *)
(* booking (a missing field, an unknown service or provider, a slot that   *)
(* is not available) leaves the ledger exactly as it was.                  *)
C14_FailureLeavesLedger ==
    [][\A c \in Clients :
          (Answered(c) /\ clients'[c].status # 201)
          => mockBookings' = mockBookings]_vars

\* after a request created a booking, one request has been refused for an
\* unknown service and another because the slot is not available
C14_Witness ==
    /\ Len(mockBookings) > 5
    /\ \E a, b \in Clients :
           /\ clients[a].pc = "done" /\ clients[a].status = 404
           /\ clients[b].pc = "done" /\ clients[b].status = 400
           /\ clients[b].result = SlotUnavailable

\* the ledger after POST /api/bookings with body `data` was handled on the
\* ledger `bookings`
Committed(bookings, data) ==
    LET response == PostBookingsResponse(bookings, data)
    IN  IF response.status = 201 THEN Append(bookings, response.booking)
        ELSE bookings

\* what the client learns from the answer to `data` on the ledger
\* `bookings`, the id of the created booking left aside
Outcome(bookings, data) ==
    LET response == PostBookingsResponse(bookings, data)
    IN  IF response.status = 201
        THEN <<201, [response.booking EXCEPT !.id = NoId]>>
        ELSE <<response.status, response.message>>

\* the (provider, date) pairs the properties of availability range over
Pairs == {"1", "2"} \X {Monday, NextMonday}

\* a created booking changes the availability of its own (provider, date)
\* pair only
OtherPairsUntouched ==
    \A c \in Clients :
        (Answered(c) /\ clients'[c].status = 201)
        => \A pair \in Pairs :
               pair # <<clients[c].data.providerId, clients[c].data.date>>
               => generateAvailableSlots(mockBookings', pair[1], pair[2])
                      = generateAvailableSlots(mockBookings, pair[1], pair[2])

\* the bookings of a ledger, their ids left aside
Unnumbered(bookings) ==
    {[bookings[i] EXCEPT !.id = NoId] : i \in 1..Len(bookings)}

\* two requests on different (provider, date) pairs get the same answers
\* and leave the same bookings, and with them the same availability of
\* every pair, whichever is handled first
OrderIndependent ==
    \A both \in {rs \in SUBSET VisitRequests : Cardinality(rs) = 2} :
        LET r1 == CHOOSE r \in both : TRUE
            r2 == CHOOSE r \in both : r # r1
            after1 == Committed(mockBookings, r1)
            after2 == Committed(mockBookings, r2)
        IN  <<r1.providerId, r1.date>> # <<r2.providerId, r2.date>>
            => /\ Outcome(after2, r1) = Outcome(mockBookings, r1)
               /\ Outcome(after1, r2) = Outcome(mockBookings, r2)
               /\ Unnumbered(Committed(after1, r2))
                      = Unnumbered(Committed(after2, r1))

(* C15.  A successful booking for provider p on date d leaves the          *)
(* available slots of every other (provider, date) pair unchanged, and     *)
(* two requests on different pairs get the same answers and leave the      *)
(* same availability in either order.                                      *)
C15_PairsAreIndependent ==
    []OrderIndependent /\ [][OtherPairsUntouched]_vars

\* requests for two different (provider, date) pairs have both created
\* their bookings
C15_Witness ==
    \E a, b \in Clients :
        /\ Succeeded(a) /\ Succeeded(b)
        /\ <<BookingOf(clients[a].result).providerId,
             BookingOf(clients[a].result).date>>
               # <<BookingOf(clients[b].result).providerId,
                   BookingOf(clients[b].result).date>>

\* every required field of the body is present
Complete(data) ==
    /\ data.customerId # NoId /\ data.providerId # NoId
    /\ data.serviceId # NoId /\ data.date # NoDate
    /\ data.startTime # NoTime

(* C16.  A booking request whose service does not belong to the requested  *)
(* provider is rejected and creates no booking.                            *)
C16_ForeignServiceRejected ==
    [][\A c \in Clients :
          (/\ Answered(c)
           /\ WellFormed(clients[c].data)
           /\ mockServices[clients[c].data.serviceId].providerId
                  # clients[c].data.providerId)
          => /\ clients'[c].status # 201
             /\ mockBookings' = mockBookings]_vars

(* C18.  A booking request that carries every field and names an unknown   *)
(* provider id or an unknown service id is answered 404 (NotFound), not    *)
(* 400, and creates no booking.                                            *)
C18_UnknownIdsNotFound ==
    [][\A c \in Clients :
          (/\ Answered(c)
           /\ Complete(clients[c].data)
           /\ \/ clients[c].data.providerId \notin ProviderIds
              \/ clients[c].data.serviceId \notin ServiceIds)
          => /\ clients'[c].status = 404
             /\ mockBookings' = mockBookings]_vars

(* C19.  After any sequence of booking creations, status updates and       *)
(* cancellations, no two bookings of the ledger share an id.               *)
C19_BookingIdsUnique ==
    \A i, j \in 1..Len(mockBookings) :
        i # j => mockBookings[i].id # mockBookings[j].id

\* two requests have created bookings, and one of the two has been
\* cancelled or had its status updated since
C19_Witness ==
    /\ Len(mockBookings) = 7
    /\ \E i \in 6..7 : mockBookings[i].status # "pending"

DuplicateReview == "Review already exists for this booking"

\* no two reviews are of one booking
OneReviewPerBooking ==
    \A i, j \in 1..Len(mockReviews) :
        i # j => mockReviews[i].bookingId # mockReviews[j].bookingId

\* a complete body of POST /api/reviews for a booking that has a review is
\* answered 400 "Review already exists for this booking" and adds no review
DuplicateRefused ==
    \A data \in ReviewRequests :
        (/\ PostReview(data)
         /\ data.rating # NoRating
         /\ \E i \in 1..Len(mockReviews) :
                mockReviews[i].bookingId = data.bookingId)
        => /\ reviewResponse'.status = 400
           /\ reviewResponse'.message = DuplicateReview
           /\ mockReviews' = mockReviews

BookingNotCompleted == "Can only review completed bookings"

\* the body of POST /api/reviews carries every required field
CompleteReview(data) ==
    /\ data.bookingId # NoId /\ data.customerId # NoId
    /\ data.providerId # NoId /\ data.serviceId # NoId
    /\ data.rating # NoRating

(* C21.  A complete request to create a review for a booking that exists   *)
(* and is pending, confirmed or cancelled is answered 400 "Can only        *)
(* review completed bookings", adds no review and leaves the rating and    *)
(* the review count of every provider unchanged.                           *)
C21_NotCompletedRefused ==
    [][\A data \in ReviewRequests :
          (/\ PostReview(data)
           /\ CompleteReview(data)
           /\ FindIndex(mockBookings, data.bookingId) # 0
           /\ BookingOf(data.bookingId).status
                  \in {"pending", "confirmed", "cancelled"})
          => /\ reviewResponse'.status = 400
             /\ reviewResponse'.message = BookingNotCompleted
             /\ mockReviews' = mockReviews
             /\ providerStats' = providerStats]_vars

\* a review of booking 2 has just been refused while the booking, which
\* has no review, is cancelled
C21_Witness ==
    /\ reviewResponse.message = BookingNotCompleted
    /\ BookingOf("2").status = "cancelled"
    /\ \A i \in 1..Len(mockReviews) : mockReviews[i].bookingId # "2"

\* the rating <<total, count>> of provider p is the mean of the ratings of
\* the reviews stored for p in `reviews`, and the count is their number
MeanAndCount(stats, reviews, p) ==
    LET providerReviews == ProviderReviews(reviews, p)
    IN  /\ stats[p].rating[1] * Len(providerReviews)
               = TotalRating(providerReviews) * stats[p].rating[2]
        /\ stats[p].reviewCount = Len(providerReviews)

(* C22.  After each successful creation, edit or deletion of a review      *)
(* that leaves the provider of the review with at least one review, the    *)
(* provider's rating is the arithmetic mean of the ratings of the reviews  *)
(* stored for it and its reviewCount is their number.                      *)
C22_RatingIsMeanAndCount ==
    [][/\ \A data \in ReviewRequests :
             (PostReview(data) /\ reviewResponse'.status = 201)
             => MeanAndCount(providerStats', mockReviews', data.providerId)
       /\ \A id \in ReviewIds :
             LET reviewIndex == FindIndex(mockReviews, id)
                 p == mockReviews[reviewIndex].providerId
             IN  reviewIndex # 0 =>
                   /\ (\E data \in ReviewUpdates : PutReview(id, data))
                      => MeanAndCount(providerStats', mockReviews', p)
                   /\ (DeleteReview(id)
                       /\ ProviderReviews(mockReviews', p) # <<>>)
                      => MeanAndCount(providerStats', mockReviews', p)]_vars

(* C23.  When the deletion of a review leaves its provider with no         *)
(* review, the provider's reviewCount becomes 0 and its rating keeps the   *)
(* value it had before the deletion.                                       *)
C23_LastReviewDeleted ==
    [][\A id \in ReviewIds :
          LET reviewIndex == FindIndex(mockReviews, id)
              p == mockReviews[reviewIndex].providerId
          IN  (/\ reviewIndex # 0
               /\ DeleteReview(id)
               /\ ProviderReviews(mockReviews', p) = <<>>)
              => /\ providerStats'[p].reviewCount = 0
                 /\ providerStats'[p].rating = providerStats[p].rating]_vars

\* the only review of provider 1 has been deleted after it was edited:
\* the count is 0 and the rating is that of the edited review
C23_Witness ==
    /\ reviewResponse.message = "Review deleted successfully"
    /\ ProviderReviews(mockReviews, "1") = <<>>
    /\ providerStats["1"].reviewCount = 0
    /\ providerStats["1"].rating = <<2, 1>>

\* provider p is closed on the weekday of date d
ClosedOn(p, d) == ~mockProviders[p].workingHours[getDay(d)].isOpen

(* C24.  Availability for a date whose weekday is marked isOpen = false    *)
(* for the provider is the empty list, whatever bookings the ledger holds. *)
C24_ClosedDayEmpty ==
    \A p \in ProviderIds, d \in Dates :
        ClosedOn(p, d) => generateAvailableSlots(mockBookings, p, d) = <<>>

\* the ledger holds a pending or confirmed booking on a day on which its
\* provider is closed, and a booking created by a request
C24_Witness ==
    /\ Len(mockBookings) > 5
    /\ \E i \in 1..Len(mockBookings) :
           /\ Occupying(mockBookings[i])
           /\ ClosedOn(mockBookings[i].providerId, mockBookings[i].date)

C26_InvalidArgument ==
    (walk.intervalMinutes <= 0 \/ walk.endHour < walk.startHour)
    => (walk.slots = <<>> /\ walk.pc # "returned")

\* bookings a and b are for one provider, date and start time
SameSlot(a, b) ==
    /\ a.providerId = b.providerId
    /\ a.date = b.date
    /\ a.startTime = b.startTime

(* C27.  The handler of POST /api/bookings checks the slot and pushes the  *)
(* booking in one step that follows its awaits, so however the handlers    *)
(* of concurrent requests interleave, no two requests for one provider,    *)
(* date and start time both insert a booking.                              *)
C27_NoRaceOnSlot ==
    /\ \A a, b \in Clients :
           (a # b /\ Succeeded(a) /\ Succeeded(b))
           => ~SameSlot(BookingOf(clients[a].result),
                        BookingOf(clients[b].result))
    /\ \A i, j \in 6..Len(mockBookings) :
           i # j => ~SameSlot(mockBookings[i], mockBookings[j])

\* of two requests in flight together for provider 1 on Monday at 11:00,
\* one has inserted the only new booking and the other has been refused
C27_Witness ==
    /\ Len(mockBookings) = 6
    /\ \E a, b \in Clients :
           /\ a # b
           /\ Succeeded(a)
           /\ BookingOf(clients[a].result).startTime = <<11, 0>>
           /\ clients[b].pc = "done"
           /\ clients[b].status = 400
           /\ clients[b].result = SlotUnavailable
           /\ Concurrent(a, b)

\* the half-open test of a slot against a booking
HalfOpenTest(booking, slot) ==
    StrLT(slot.start, booking.endTime) /\ StrLT(booking.startTime, slot.end)

(* C28.  For every slot and every booking with start < end, the           *)
(* three-clause test of the availability filter is true exactly when the   *)
(* half-open test slotStart < bookingEnd and bookingStart < slotEnd is     *)
(* true; the filter keeps exactly the slots for which the half-open test   *)
(* is false.                                                               *)
C28_ThreeClausesAreHalfOpen ==
    /\ \A slot \in WalkPeriods :
           SlotTaken(walk.booking, slot) <=> HalfOpenTest(walk.booking, slot)
    /\ walk.done =>
           LET slots == GenerateSlots(walk.periods, <<>>)
           IN  \A k \in 1..Len(slots) :
                   (\E n \in 1..Len(walk.slots) : walk.slots[n] = slots[k])
                   <=> ~HalfOpenTest(walk.booking, slots[k])

\* the filter has run for a booking that starts and ends inside slots: it
\* has removed some slots of the day and kept others
C28_Witness ==
    /\ walk.done
    /\ walk.booking.startTime[2] \in {15, 45}
    /\ walk.booking.endTime[2] \in {15, 45}
    /\ walk.slots # <<>>
    /\ Len(walk.slots) < Len(GenerateSlots(walk.periods, <<>>))

(* C29.  After any sequence of review creations and deletions, no two      *)
(* stored reviews have the same id.                                        *)
C29_ReviewIdsUnique ==
    \A i, j \in 1..Len(mockReviews) :
        i # j => mockReviews[i].id # mockReviews[j].id

(* C30.  In every reachable state each stored review refers to a booking   *)
(* whose status is completed.                                              *)
C30_ReviewedBookingsCompleted ==
    \A i \in 1..Len(mockReviews) :
        /\ FindIndex(mockBookings, mockReviews[i].bookingId) # 0
        /\ BookingOf(mockReviews[i].bookingId).status = "completed"

====
